---- MODULE Spec2Model ----
(***************************************************************************)
(* A model of src/pyi_generator.py: ModuleStubGenerator walking a loaded   *)
(* module tree and writing a tree of __init__.pyi descriptor files.        *)
(*                                                                         *)
(* Strings are sequences of one-character strings, so that startswith,     *)
(* split('.'), isidentifier, sorting and the "_" prefix of _sanitize_name  *)
(* are computed, not assumed.  Runtime objects are named by their identity *)
(* (what id() returns); their attributes are the tables Kind, DeclName,    *)
(* OwnerModule and HasName below.  The namespace contents (what dir() and  *)
(* getattr give for each module) are chosen in Init.                       *)
(*                                                                         *)
(* Not modelled: the body of a class block (bases, docstring, members),    *)
(* signatures and type hints, and the console output; a class block is its *)
(* header line.  I/O failures are modelled only in the driver.             *)
(***************************************************************************)
EXTENDS Integers, Sequences, FiniteSets, TLC

\* At most this many members in one namespace.
MaxMembers == 2

(***************************************************************************)
(* Strings                                                                 *)
(***************************************************************************)
Upper == {"A", "B", "C", "W", "X"}
Lower == {"a", "b", "c", "d", "e", "f", "g", "h", "i", "l", "m", "n", "o", "p", "r", "s", "t", "u", "v", "w", "x", "y"}
Digits == {"1"}

\* Code points, for the order of dir().
Ord(c) ==
    CASE c = "." -> 46
      [] c = "1" -> 49
      [] c = "A" -> 65 [] c = "B" -> 66 [] c = "C" -> 67 [] c = "W" -> 87 [] c = "X" -> 88
      [] c = "_" -> 95
      [] c = "a" -> 97 [] c = "b" -> 98 [] c = "c" -> 99 [] c = "d" -> 100
      [] c = "e" -> 101 [] c = "f" -> 102 [] c = "g" -> 103 [] c = "h" -> 104
      [] c = "i" -> 105 [] c = "l" -> 108 [] c = "m" -> 109 [] c = "n" -> 110
      [] c = "o" -> 111 [] c = "p" -> 112 [] c = "r" -> 114 [] c = "s" -> 115
      [] c = "t" -> 116 [] c = "u" -> 117 [] c = "v" -> 118 [] c = "w" -> 119
      [] c = "x" -> 120 [] c = "y" -> 121

\* str.startswith
StartsWith(s, p) == Len(p) <= Len(s) /\ SubSeq(s, 1, Len(p)) = p

\* s < t for Python strings (lexicographic by code point)
RECURSIVE StrLess(_, _)
StrLess(s, t) ==
    IF t = <<>> THEN FALSE
    ELSE IF s = <<>> THEN TRUE
    ELSE IF s[1] # t[1] THEN Ord(s[1]) < Ord(t[1])
    ELSE StrLess(Tail(s), Tail(t))

\* str.isidentifier
IsIdentifier(name) ==
    /\ Len(name) > 0
    /\ name[1] \in Upper \cup Lower \cup {"_"}
    /\ \A i \in 1..Len(name) : name[i] \in Upper \cup Lower \cup Digits \cup {"_"}

\* name.split('.')[-1]
RECURSIVE LastSegment(_)
LastSegment(name) ==
    IF \E i \in 1..Len(name) : name[i] = "."
    THEN LastSegment(Tail(name))
    ELSE name

\* ModuleStubGenerator._sanitize_name
SanitizeName(name) == IF ~IsIdentifier(name) THEN <<"_">> \o name ELSE name

\* ModuleStubGenerator._is_internal_module
InternalPrefixes ==
    { <<"b","u","i","l","t","i","n","s">>, <<"_">>, <<"s","y","s">>, <<"o","s">>, <<"i","o">>,
      <<"c","o","l","l","e","c","t","i","o","n","s">>, <<"t","y","p","i","n","g">>,
      <<"a","b","c">>, <<"e","n","u","m">>, <<"f","u","n","c","t","o","o","l","s">>,
      <<"i","t","e","r","t","o","o","l","s">>, <<"o","p","e","r","a","t","o","r">>,
      <<"w","e","a","k","r","e","f">>, <<"t","h","r","e","a","d","i","n","g">>,
      <<"m","u","l","t","i","p","r","o","c","e","s","s","i","n","g">> }

IsInternalModule(module_name) == \E prefix \in InternalPrefixes : StartsWith(module_name, prefix)

(***************************************************************************)
(* The runtime objects                                                     *)
(***************************************************************************)
NoName == <<"?">>          \* None, or an attribute that is absent

N_d == <<"d">>
N_du == <<"d", ".", "u">>
N_duv == <<"d", ".", "u", ".", "v">>
N_x == <<"x">>

Modules == {"m_d", "m_du", "m_duv", "m_x"}
Classes == {"k_W", "k_X"}
Callables == {"f_ok", "f_bad", "f_bad0", "f_x"}
Values == {"v_1"}
Raises == "raises"         \* a member whose getattr raises

\* inspect.isclass / inspect.ismodule / callable
Kind(o) ==
    IF o \in Classes THEN "class"
    ELSE IF o \in Modules THEN "module"
    ELSE IF o \in Callables THEN "callable"
    ELSE "value"

\* obj.__name__ ; f_bad and f_bad0 are instances with __call__, which have none
DeclName(o) ==
    CASE o = "m_d" -> N_d
      [] o = "m_du" -> N_du
      [] o = "m_duv" -> N_duv
      [] o = "m_x" -> N_x
      [] o = "k_W" -> <<"W">>
      [] o = "k_X" -> <<"X">>
      [] o = "f_ok" -> <<"f">>
      [] o = "f_x" -> <<"g">>
      [] OTHER -> NoName

HasName(o) == DeclName(o) # NoName

\* obj.__module__
OwnerModule(o) ==
    CASE o = "k_W" -> N_duv
      [] o = "k_X" -> N_x
      [] o = "f_ok" -> N_d
      [] o = "f_bad" -> N_du
      [] o = "f_bad0" -> N_d
      [] o = "f_x" -> N_x
      [] OTHER -> NoName

\* What each module may bind: <<member name, object>>.
Pool(m) ==
    CASE m = "m_d" -> { << <<"A">>, "k_W" >>, << <<"W">>, "k_W" >>, << <<"f">>, "f_ok" >>,
                        << <<"g">>, "f_bad0" >>, << <<"h">>, "m_du" >>, << <<"u">>, "m_du" >>, << <<"v">>, "m_duv" >> }
      [] m = "m_du" -> { << <<"C">>, "k_W" >>, << <<"W">>, "k_W" >>, << <<"g">>, "f_bad" >>,
                         << <<"p">>, "m_d" >>, << <<"v">>, "m_duv" >> }
      [] m = "m_duv" -> { << <<"W">>, "k_W" >>, << <<"X">>, "k_X" >>, << <<"_", "p">>, "v_1" >>,
                          << <<"e">>, Raises >>, << <<"g">>, "f_x" >>, << <<"n">>, "v_1" >>,
                          << <<"o">>, "m_x" >>, << <<"1", "c">>, "v_1" >> }
      [] OTHER -> {}

(***************************************************************************)
(* get_module_members                                                      *)
(***************************************************************************)
\* dir(module): the member names in sorted order, each with what getattr gives
RECURSIVE SortedDir(_)
SortedDir(S) ==
    IF S = {} THEN <<>>
    ELSE LET x == CHOOSE x \in S : \A y \in S \ {x} : StrLess(x[1], y[1])
         IN <<x>> \o SortedDir(S \ {x})

\* line 137
IsPrivate(name) == StartsWith(name, <<"_">>)

\* line 149: the class is defined in this module, below it, or nowhere
ClassOwned(attr_module, module_name) ==
    \/ attr_module = NoName
    \/ attr_module = module_name
    \/ StartsWith(attr_module, module_name \o <<".">>)

\* lines 159-160
ChosenName(class_actual_name, name) ==
    IF class_actual_name = name THEN class_actual_name ELSE name

\* lines 169-171
IsSubmodule(attr_module_name, module_name) ==
    /\ attr_module_name # module_name
    /\ StartsWith(attr_module_name, module_name \o <<".">>)
    /\ ~IsInternalModule(attr_module_name)

\* A classifier that forgets the ownership test of line 177.
FunctionOwnedAnywhere(attr_module, module_name) == TRUE

\* line 177
FunctionOwned(attr_module, module_name) ==
    attr_module = NoName \/ attr_module = module_name

\* dict[key] = value on a mapping kept as a function
DictSet(d, key, value) ==
    [k \in DOMAIN d \cup {key} |-> IF k = key THEN value ELSE d[k]]

EmptyMembers ==
    [classes |-> <<>>, functions |-> <<>>, submodules |-> <<>>, variables |-> <<>>]

\* One turn of the loop of lines 136-182.  acc: the members so far, the
\* class objects seen in this module, and class_name_mapping.
ClassifyMember(acc, entry, module_name) ==
    LET name == entry[1]
        attr == entry[2]
    IN  IF IsPrivate(name) THEN acc
        ELSE IF attr = Raises THEN acc
        ELSE IF Kind(attr) = "class" THEN
            IF ClassOwned(OwnerModule(attr), module_name) THEN
                IF attr \in acc.seen THEN acc
                ELSE LET chosen_name == ChosenName(DeclName(attr), name)
                     IN [acc EXCEPT
                            !.seen = @ \cup {attr},
                            !.mapping = DictSet(@, attr, chosen_name),
                            !.members.classes = Append(@, <<chosen_name, attr>>)]
            ELSE acc
        ELSE IF Kind(attr) = "module" THEN
            IF IsSubmodule(DeclName(attr), module_name)
            THEN [acc EXCEPT !.members.submodules = Append(@, <<name, attr>>)]
            ELSE acc
        ELSE IF Kind(attr) = "callable" THEN
            IF FunctionOwned(OwnerModule(attr), module_name)
            THEN [acc EXCEPT !.members.functions = Append(@, <<name, attr>>)]
            ELSE acc
        ELSE [acc EXCEPT !.members.variables = Append(@, <<name, attr>>)]

RECURSIVE ClassifyFrom(_, _, _)
ClassifyFrom(acc, entries, module_name) ==
    IF entries = <<>> THEN acc
    ELSE ClassifyFrom(ClassifyMember(acc, Head(entries), module_name), Tail(entries), module_name)

\* get_module_members(module): [members, mapping], mapping being
\* self.class_name_mapping when it returns
GetModuleMembers(table, module_name, mapping) ==
    LET r == ClassifyFrom([members |-> EmptyMembers, seen |-> {}, mapping |-> mapping],
                          SortedDir(table), module_name)
    IN [members |-> r.members, mapping |-> r.mapping]

(***************************************************************************)
(* State                                                                   *)
(***************************************************************************)
VARIABLES
    table,                    \* the loaded modules: module -> set of <<name, value>>
    remove_if_exists,         \* self.remove_if_exists
    processed_modules,        \* self.processed_modules
    processed_classes,        \* self.processed_classes
    processed_class_objects,  \* self.processed_class_objects
    class_name_mapping,       \* self.class_name_mapping
    dirs,                     \* directories made under (and including) output_dir
    files,                    \* module_dir -> the __init__.pyi written there
    stack,                    \* the calls of create_module_structure in progress
    exc,                      \* an exception is propagating from the call just left
    pc,                       \* where dump_module is
    last_members,             \* what get_module_members returned last, and for whom
    dump_calls,               \* history: class object -> calls of dump_class_stub
    work,                     \* history: key -> times lines 196-205 ran for it
    raised_keys,              \* history: keys whose call left by an exception
    rendered_as,              \* history: class object -> [name, dir] it was rendered under
    failed_step,              \* history: the step of dump_module that raised
    steps                     \* history: the steps taken

vars == <<table, remove_if_exists, processed_modules, processed_classes,
          processed_class_objects, class_name_mapping, dirs, files, stack, exc, pc,
          last_members, dump_calls, work, raised_keys, rendered_as, failed_step, steps>>

Root == "m_d"
OutputDir == << <<"o", "u", "t">> >>      \* Path(output_dir)

Tables(m) == {S \in SUBSET Pool(m) : Cardinality(S) <= MaxMembers}

Binds(S, o) == \E e \in S : e[2] = o

Init ==
    /\ \E td \in Tables("m_d"), tu \in Tables("m_du"), tv \in Tables("m_duv") :
          \* a module no import reaches is not loaded
          /\ ~Binds(td, "m_du") => tu = {}
          /\ ~(Binds(td, "m_duv") \/ Binds(tu, "m_duv")) => tv = {}
          /\ table = [m \in Modules |->
                         CASE m = "m_d" -> td [] m = "m_du" -> tu [] m = "m_duv" -> tv
                           [] OTHER -> {}]
    /\ remove_if_exists \in BOOLEAN
    /\ processed_modules = {}
    /\ processed_classes = {}
    /\ processed_class_objects = {}
    /\ class_name_mapping = <<>>
    /\ dirs = {}
    /\ files = <<>>
    /\ stack = <<>>
    /\ exc = FALSE
    /\ pc = "init"
    /\ last_members = [module |-> "", members |-> EmptyMembers]
    /\ dump_calls = [k \in Classes |-> 0]
    /\ work = <<>>
    /\ raised_keys = {}
    /\ rendered_as = <<>>
    /\ failed_step = "none"
    /\ steps = 0

(***************************************************************************)
(* create_module_structure                                                 *)
(***************************************************************************)
Line(t, a, b, k) == [t |-> t, a |-> a, b |-> b, k |-> k]

Preamble == Line("preamble", <<>>, <<>>, "")

\* dump_class_stub: the header line of the block
DumpClassStub(cls) == Line("class", SanitizeName(DeclName(cls)), <<>>, cls)

\* dump_function_stub raises at line 117 when the callable has no __name__
FunctionStubRaises(func) == ~HasName(func)

DumpFunctionStub(func) == Line("def", SanitizeName(DeclName(func)), <<>>, func)

\* f"{base_path}/{module_name}": one string per pair, as no name holds a "/"
ModuleKey(base_path, module_name) == <<base_path, module_name>>

\* A traversal without the processed-set test of line 193.
NeverVisited(key, processed) == FALSE

\* line 193
AlreadyVisited(key, processed) == key \in processed

\* A class loop without the global test of line 216.
ClassNeverProcessed(class_id, processed) == FALSE

\* line 216
ClassAlreadyProcessed(class_id, processed) == class_id \in processed

\* dict.get(key, default)
DictGet(d, key, default) == IF key \in DOMAIN d THEN d[key] ELSE default

\* One turn of the loop of lines 211-233.
RenderClass(acc, entry, module_name, module_dir) ==
    LET class_name == entry[1]
        cls == entry[2]
    IN  IF ClassAlreadyProcessed(cls, acc.pco) THEN
            LET existing_name == DictGet(acc.mapping, cls, class_name)
                safe_class_name == SanitizeName(class_name)
                safe_existing_name == SanitizeName(existing_name)
            IN  IF safe_class_name # safe_existing_name
                THEN [acc EXCEPT !.content =
                          Append(@, Line("alias", safe_class_name, safe_existing_name, cls))]
                ELSE acc
        ELSE [acc EXCEPT
                 !.pco = @ \cup {cls},
                 !.pcs = @ \cup {module_name \o <<".">> \o class_name},
                 !.content = Append(@, DumpClassStub(cls)),
                 !.dumps = [@ EXCEPT ![cls] = @ + 1],
                 !.rendered = DictSet(@, cls, [name |-> class_name, dir |-> module_dir])]

RECURSIVE RenderClasses(_, _, _, _)
RenderClasses(acc, classes, module_name, module_dir) ==
    IF classes = <<>> THEN acc
    ELSE RenderClasses(RenderClass(acc, Head(classes), module_name, module_dir),
                       Tail(classes), module_name, module_dir)

\* lines 236-237, when no stub raises
RECURSIVE RenderFunctions(_, _)
RenderFunctions(content, functions) ==
    IF functions = <<>> THEN content
    ELSE RenderFunctions(Append(content, DumpFunctionStub(Head(functions)[2])), Tail(functions))

\* lines 240-243
RECURSIVE RenderVariables(_, _)
RenderVariables(content, variables) ==
    IF variables = <<>> THEN content
    ELSE RenderVariables(Append(content, Line("var", SanitizeName(Head(variables)[1]), <<>>,
                                              Head(variables)[2])),
                         Tail(variables))

CallFrame(module, base_path, module_name) ==
    [st |-> "call", module |-> module, base_path |-> base_path, module_name |-> module_name,
     module_dir |-> <<>>, submodules |-> <<>>, idx |-> 0, init_content |-> <<>>]

\* lines 253-254: after the call for submodules[idx] returned
AppendImport(f) ==
    LET submodule_name == f.submodules[f.idx][1]
    IN [f EXCEPT !.init_content =
                     Append(@, Line("import", SanitizeName(submodule_name), <<>>,
                                    f.submodules[f.idx][2])),
                 !.idx = @ + 1]

\* The stack once the call on top of it has returned to `rest`.
Returned(rest) == IF rest = <<>> THEN rest ELSE <<AppendImport(Head(rest))>> \o Tail(rest)

\* A driver whose try block starts after the traversal.
DriverHandlesListing(step) == step = "listing"

\* lines 285, 300: the steps of dump_module inside its try block
DriverHandles(step) == step \in {"traverse", "listing"}

Bump(d, key) == DictSet(d, key, DictGet(d, key, 0) + 1)

\* Lines 186-243: from the call to the start of the submodule loop.
Enter ==
    /\ steps' = steps + 1
    /\ pc = "traverse" /\ ~exc /\ stack # <<>> /\ Head(stack).st = "call"
    /\ LET f == Head(stack)
           rest == Tail(stack)
           full_module_key == ModuleKey(f.base_path, f.module_name)
       IN  IF AlreadyVisited(full_module_key, processed_modules) THEN
               /\ stack' = Returned(rest)
               /\ pc' = IF rest = <<>> THEN "listing" ELSE pc
               /\ UNCHANGED <<processed_modules, processed_classes, processed_class_objects,
                              class_name_mapping, dirs, last_members, dump_calls, work,
                              raised_keys, rendered_as, exc>>
           ELSE
               LET safe_module_name == SanitizeName(LastSegment(f.module_name))
                   module_dir == Append(f.base_path, safe_module_name)
                   got == GetModuleMembers(table[f.module], DeclName(f.module),
                                           class_name_mapping)
                   members == got.members
                   cl == RenderClasses([pco |-> processed_class_objects,
                                        pcs |-> processed_classes,
                                        mapping |-> got.mapping,
                                        content |-> <<Preamble>>,
                                        dumps |-> dump_calls,
                                        rendered |-> rendered_as],
                                       members.classes, f.module_name, module_dir)
                   raises == \E i \in 1..Len(members.functions) :
                                 FunctionStubRaises(members.functions[i][2])
                   content == RenderVariables(RenderFunctions(cl.content, members.functions),
                                              members.variables)
               IN  /\ processed_modules' = processed_modules \cup {full_module_key}
                   /\ work' = Bump(work, full_module_key)
                   /\ dirs' = dirs \cup {module_dir}
                   /\ class_name_mapping' = got.mapping
                   /\ last_members' = [module |-> f.module, members |-> members]
                   /\ processed_class_objects' = cl.pco
                   /\ processed_classes' = cl.pcs
                   /\ dump_calls' = cl.dumps
                   /\ rendered_as' = cl.rendered
                   /\ IF raises
                      THEN /\ stack' = rest
                           /\ exc' = TRUE
                           /\ raised_keys' = raised_keys \cup {full_module_key}
                      ELSE /\ stack' = <<[f EXCEPT !.st = "subs", !.module_dir = module_dir,
                                                   !.submodules = members.submodules,
                                                   !.idx = 1, !.init_content = content]>>
                                       \o rest
                           /\ UNCHANGED <<exc, raised_keys>>
                   /\ pc' = pc
    /\ UNCHANGED <<table, remove_if_exists, files, failed_step>>

\* Line 250: the recursive call for the next submodule.
Recurse ==
    /\ steps' = steps + 1
    /\ pc = "traverse" /\ ~exc /\ stack # <<>>
    /\ LET f == Head(stack)
       IN  /\ f.st = "subs" /\ f.idx <= Len(f.submodules)
           /\ LET submodule == f.submodules[f.idx][2]
              IN stack' = <<CallFrame(submodule, f.module_dir, DeclName(submodule))>> \o stack
    /\ UNCHANGED <<table, remove_if_exists, processed_modules, processed_classes,
                   processed_class_objects, class_name_mapping, dirs, files, exc, pc,
                   last_members, dump_calls, work, raised_keys, rendered_as, failed_step>>

\* Lines 256-257: the parent takes the exception of the call it made (no line
\* is appended for it) and goes on with the next submodule.
CatchSubmodule ==
    /\ steps' = steps + 1
    /\ pc = "traverse" /\ exc /\ stack # <<>>
    /\ stack' = <<[Head(stack) EXCEPT !.idx = @ + 1]>> \o Tail(stack)
    /\ exc' = FALSE
    /\ UNCHANGED <<table, remove_if_exists, processed_modules, processed_classes,
                   processed_class_objects, class_name_mapping, dirs, files, pc,
                   last_members, dump_calls, work, raised_keys, rendered_as, failed_step>>

\* Lines 259-270: the loop is over; write __init__.pyi and return.
WriteInit ==
    /\ steps' = steps + 1
    /\ pc = "traverse" /\ ~exc /\ stack # <<>>
    /\ LET f == Head(stack)
           rest == Tail(stack)
       IN  /\ f.st = "subs" /\ f.idx > Len(f.submodules)
           /\ files' = DictSet(files, f.module_dir,
                               [module |-> f.module, lines |-> f.init_content])
           /\ stack' = Returned(rest)
           /\ pc' = IF rest = <<>> THEN "listing" ELSE pc
    /\ UNCHANGED <<table, remove_if_exists, processed_modules, processed_classes,
                   processed_class_objects, class_name_mapping, dirs, exc,
                   last_members, dump_calls, work, raised_keys, rendered_as, failed_step>>

(***************************************************************************)
(* dump_module                                                             *)
(***************************************************************************)
\* What an exception raised in `step` does to dump_module.
AfterException(step) == IF DriverHandles(step) THEN "returned" ELSE "raised"

\* Lines 274-286: clear and make the output root, then call the traversal.
\* exists: output_dir.exists(); the two failures are the file system's.
DumpModuleStart ==
    /\ steps' = steps + 1
    /\ pc = "init"
    /\ \E exists \in BOOLEAN, rmtree_fails \in BOOLEAN, mkdir_fails \in BOOLEAN :
          IF exists /\ remove_if_exists /\ rmtree_fails THEN
              /\ pc' = AfterException("rmtree")
              /\ failed_step' = "rmtree"
              /\ UNCHANGED <<dirs, stack>>
          ELSE IF mkdir_fails THEN
              /\ pc' = AfterException("mkdir")
              /\ failed_step' = "mkdir"
              /\ UNCHANGED <<dirs, stack>>
          ELSE
              /\ pc' = "traverse"
              /\ dirs' = {OutputDir}
              /\ stack' = <<CallFrame(Root, OutputDir, DeclName(Root))>>
              /\ UNCHANGED failed_step
    /\ UNCHANGED <<table, remove_if_exists, processed_modules, processed_classes,
                   processed_class_objects, class_name_mapping, files, exc,
                   last_members, dump_calls, work, raised_keys, rendered_as>>

\* Line 300, for an exception that left create_module_structure.
TraversalRaised ==
    /\ steps' = steps + 1
    /\ pc = "traverse" /\ exc /\ stack = <<>>
    /\ pc' = AfterException("traverse")
    /\ failed_step' = "traverse"
    /\ exc' = FALSE
    /\ UNCHANGED <<table, remove_if_exists, processed_modules, processed_classes,
                   processed_class_objects, class_name_mapping, dirs, files, stack,
                   last_members, dump_calls, work, raised_keys, rendered_as>>

\* Lines 287-298: the summary and the file listing, which may raise.
Listing ==
    /\ steps' = steps + 1
    /\ pc = "listing"
    /\ \E listing_fails \in BOOLEAN :
          IF listing_fails
          THEN pc' = AfterException("listing") /\ failed_step' = "listing"
          ELSE pc' = "returned" /\ UNCHANGED failed_step
    /\ UNCHANGED <<table, remove_if_exists, processed_modules, processed_classes,
                   processed_class_objects, class_name_mapping, dirs, files, stack, exc,
                   last_members, dump_calls, work, raised_keys, rendered_as>>

Next ==
    \/ DumpModuleStart
    \/ Enter
    \/ Recurse
    \/ CatchSubmodule
    \/ WriteInit
    \/ TraversalRaised
    \/ Listing

Spec == Init /\ [][Next]_vars

(***************************************************************************)
(* Properties                                                              *)
(***************************************************************************)
Finished == pc \in {"returned", "raised"}

LinesOf(p) == files[p].lines

HasLine(p, l) == \E i \in 1..Len(LinesOf(p)) : LinesOf(p)[i] = l

\* module_dir of a processed key (lines 200-201)
KeyDir(key) == Append(key[1], SanitizeName(LastSegment(key[2])))

\* the members get_module_members looks at: public, and readable
Visible(m) == {e \in table[m] : ~(e[1][1] = "_") /\ e[2] # Raises}

Below(name, module_name) == StartsWith(name, module_name \o <<".">>)

BlocksWritten(k) ==
    UNION { { <<p, i>> : i \in {j \in 1..Len(LinesOf(p)) :
                                   LinesOf(p)[j].t = "class" /\ LinesOf(p)[j].k = k} }
            : p \in DOMAIN files }

BlocksPending(k) ==
    UNION { { <<n, i>> : i \in {j \in 1..Len(stack[n].init_content) :
                                   /\ stack[n].init_content[j].t = "class"
                                   /\ stack[n].init_content[j].k = k} }
            : n \in 1..Len(stack) }

\* C1: in one run dump_class_stub is called at most once for a class object,
\* and at most one class block for it is in the descriptor files written and
\* the contents still being built, whatever names and modules it is met under.
C1_OneBlockPerClass ==
    \A k \in Classes :
        /\ dump_calls[k] <= 1
        /\ Cardinality(BlocksWritten(k)) + Cardinality(BlocksPending(k)) <= 1

\* C1 witness: the run is over, the block of k_W is in one descriptor and
\* another written descriptor's module binds k_W too.
C1_Witness ==
    /\ pc = "returned"
    /\ \E p1 \in DOMAIN files, p2 \in DOMAIN files :
          /\ p1 # p2
          /\ BlocksWritten("k_W") # {} /\ \E x \in BlocksWritten("k_W") : x[1] = p1
          /\ Binds(Visible(files[p2].module), "k_W")

\* C2: a class already rendered in another namespace and bound here under a
\* further name gets the line `other_name = canonical_name` in this namespace's
\* descriptor when the sanitized names differ, and no alias line when they
\* are equal; canonical_name is the name it was rendered under.
C2_AliasForFurtherName ==
    \A p \in DOMAIN files :
        \A e \in Visible(files[p].module) :
            LET k == e[2]
                mn == DeclName(files[p].module)
            IN  ( /\ k \in Classes
                  /\ k \in DOMAIN rendered_as
                  /\ rendered_as[k].dir # p
                  /\ (OwnerModule(k) = NoName \/ OwnerModule(k) = mn \/ Below(OwnerModule(k), mn)) )
                =>
                LET other == SanitizeName(e[1])
                    canonical == SanitizeName(rendered_as[k].name)
                IN  IF other # canonical
                    THEN HasLine(p, Line("alias", other, canonical, k))
                    ELSE ~\E i \in 1..Len(LinesOf(p)) :
                             LinesOf(p)[i].t = "alias" /\ LinesOf(p)[i].a = other

\* Some action of Next is enabled: the guards of the seven actions.
CanStep ==
    \/ pc = "init"
    \/ pc = "listing"
    \/ pc = "traverse" /\ exc
    \/ pc = "traverse" /\ ~exc /\ stack # <<>> /\ Head(stack).st \in {"call", "subs"}

\* C3: the traversal ends: no pair (output path, qualified name) is processed
\* twice, the steps taken are bounded by the pairs processed, and the run has
\* a next step until dump_module has returned.
C3_TerminatesOncePerPair ==
    /\ \A key \in DOMAIN work : work[key] <= 1
    /\ DOMAIN work = processed_modules
    /\ steps <= 2 + Cardinality(processed_modules) * (2 * MaxMembers + 2)
    /\ ~Finished => CanStep

\* C3 witness: the run is over; d.u was bound twice in d (the second call met
\* a visited pair) and d.u has its own parent d as a member.
C3_Witness ==
    /\ pc = "returned"
    /\ << <<"h">>, "m_du" >> \in table["m_d"]
    /\ << <<"u">>, "m_du" >> \in table["m_d"]
    /\ << <<"p">>, "m_d" >> \in table["m_du"]
    /\ work[ModuleKey(Append(OutputDir, N_d), N_du)] = 1

CategoriesOf(name) ==
    {c \in {"classes", "functions", "submodules", "variables"} :
        \E i \in 1..Len(last_members.members[c]) : last_members.members[c][i][1] = name}

\* C4 as claimed: every public readable member is in exactly one category.
C4_ExclusiveAndTotal ==
    last_members.module # "" =>
        \A e \in Visible(last_members.module) : Cardinality(CategoriesOf(e[1])) = 1

\* C4 amended: every public readable member is in at most one category, and
\* in exactly one unless it is a class owned elsewhere, a further name of a
\* class object already seen in the namespace, a module that is not a dotted
\* descendant (or is internal), or a callable owned elsewhere: those are in
\* none.  Private and unreadable members are in none.
C4_ExclusiveNotTotal ==
    last_members.module # "" =>
        LET m == last_members.module
            mn == DeclName(m)
        IN  /\ \A e \in table[m] \ Visible(m) : CategoriesOf(e[1]) = {}
            /\ \A e \in Visible(m) :
                  LET name == e[1]
                      o == e[2]
                      owner == OwnerModule(o)
                  IN  CategoriesOf(name) =
                        CASE Kind(o) = "class" ->
                                IF /\ (owner = NoName \/ owner = mn \/ Below(owner, mn))
                                   /\ ~\E e2 \in Visible(m) : e2[2] = o /\ StrLess(e2[1], name)
                                THEN {"classes"} ELSE {}
                          [] Kind(o) = "module" ->
                                IF Below(DeclName(o), mn) /\ ~IsInternalModule(DeclName(o))
                                THEN {"submodules"} ELSE {}
                          [] Kind(o) = "callable" ->
                                IF owner = NoName \/ owner = mn THEN {"functions"} ELSE {}
                          [] OTHER -> {"variables"}

\* C4 witness: get_module_members has returned for a module with a foreign
\* callable (in no category) and another member that is in a category.
C4_Witness ==
    /\ last_members.module # ""
    /\ \E e \in Visible(last_members.module) :
          e[2] = "f_x" /\ CategoriesOf(e[1]) = {}
    /\ \E e \in Visible(last_members.module) : CategoriesOf(e[1]) # {}

\* C5: when the call for a submodule raised, at the end of the run the parent's
\* descriptor is written, it holds no import line for that submodule, and
\* every submodule of the parent was processed.
C5_FailedSubmoduleOmitted ==
    pc = "returned" =>
        \A key \in raised_keys :
            key[1] # OutputDir =>
                /\ key[1] \in DOMAIN files
                /\ ~\E i \in 1..Len(LinesOf(key[1])) :
                       /\ LinesOf(key[1])[i].t = "import"
                       /\ DeclName(LinesOf(key[1])[i].k) = key[2]
                /\ \A e \in Visible(files[key[1]].module) :
                       ( /\ Kind(e[2]) = "module"
                         /\ Below(DeclName(e[2]), DeclName(files[key[1]].module))
                         /\ ~IsInternalModule(DeclName(e[2])) )
                       => ModuleKey(key[1], DeclName(e[2])) \in processed_modules

\* C6 as claimed: dump_module never leaves by an exception.
C6_NeverPropagates == pc # "raised"

\* C6 amended: an exception of the traversal or of the final listing is caught
\* and dump_module returns; dump_module leaves by an exception only when
\* clearing or creating the output root failed, before any module was processed.
C6_CatchesTraversalAndListing ==
    /\ pc = "raised" => (failed_step \in {"rmtree", "mkdir"} /\ processed_modules = {})
    /\ (Finished /\ failed_step \in {"traverse", "listing"}) => pc = "returned"

\* C6 witness: the traversal raised, and dump_module returned normally.
C6_Witness == pc = "returned" /\ failed_step = "traverse" /\ raised_keys # {}

\* C7: every import line of a written descriptor names a subdirectory that
\* exists beside it; and a submodule bound under a name that is not the last
\* segment of its qualified name, once processed without failure, has its
\* directory named by that segment and the import line of that segment in the
\* parent's descriptor.
C7_ImportNamesDirectory ==
    \A p \in DOMAIN files :
        /\ \A i \in 1..Len(LinesOf(p)) :
               LinesOf(p)[i].t = "import" => Append(p, LinesOf(p)[i].a) \in dirs
        /\ \A e \in Visible(files[p].module) :
               LET sub == e[2]
                   segment == SanitizeName(LastSegment(DeclName(sub)))
               IN  ( /\ Kind(sub) = "module"
                     /\ Below(DeclName(sub), DeclName(files[p].module))
                     /\ ~IsInternalModule(DeclName(sub))
                     /\ e[1] # LastSegment(DeclName(sub))
                     /\ ModuleKey(p, DeclName(sub)) \notin raised_keys )
                   => /\ Append(p, segment) \in dirs
                      /\ HasLine(p, Line("import", segment, <<>>, sub))

\* C8: the canonical name recorded for a class object is the class's own
\* declared name (__name__), which is the name of its class header.
C8_CanonicalIsDeclaredName ==
    \A k \in DOMAIN class_name_mapping : class_name_mapping[k] = DeclName(k)

\* C9: when the run has ended, the directory of every processed namespace
\* holds its descriptor file.
C9_ProcessedDirHasDescriptor ==
    Finished =>
        \A key \in processed_modules :
            KeyDir(key) \in dirs => KeyDir(key) \in DOMAIN files

\* C10: the rendered set never loses a class object, and the name mapped to a
\* rendered class object never changes.
C10_TrackerOnlyGrows ==
    [][ /\ processed_class_objects \subseteq processed_class_objects'
        /\ \A k \in processed_class_objects :
               k \in DOMAIN class_name_mapping =>
                   /\ k \in DOMAIN class_name_mapping'
                   /\ class_name_mapping'[k] = class_name_mapping[k] ]_vars

====
